---- MODULE Spec2Model ----
(***************************************************************************)
(* A model of the IPTV catalogue builder: the catchup detector             *)
(* (src/detector.py), the standalone generator (src/generator.py) and the  *)
(* main pipeline fetch -> merge -> generate (main.py, src/core,            *)
(* src/generators).                                                        *)
(*                                                                         *)
(* Text is modelled as a sequence of tokens (short TLA+ strings): every    *)
(* Python string operation the code uses (split, in, startswith, endswith, *)
(* lower, len, re.findall, urlparse, parse_qs, urlencode) is computed on   *)
(* the token sequence.  A token never straddles a separator the code looks *)
(* for.                                                                    *)
(***************************************************************************)
EXTENDS Integers, Sequences, FiniteSets, TLC

VARIABLES
    \* ---- src/detector.py: one run of detect_catchup_capability
    stream_url,     \* the argument of detect_catchup_capability
    dpc,            \* position in detect_catchup_capability
    didx,           \* index of the next window / template to probe
    result,         \* the report being built (detector.py:29-35)
    requests,       \* the network requests issued so far, in order
    \* ---- the M3U parsers applied to one listing
    content,        \* the listing text
    parsed_merger,  \* what ChannelMerger.parse_m3u made of it
    parsed_generator, \* what IPTVGenerator._parse_m3u made of it
    \* ---- main.py: fetch_all -> merge -> generate, generate
    config,         \* the loaded configuration
    source_text,    \* per source, the text a successful fetch returns
    pending,        \* the sources whose fetch future has not completed
    sources_data,   \* fetch_all's results dict, in insertion order
    mpc,            \* position in main()
    all_channels,   \* merge's local all_channels (merger.py:67-74)
    unique_channels, \* merge's local unique_channels.values() (merger.py:77-84)
    merge_returned, \* the list as merge returned it
    merged_channels, \* main's merged_channels: the same list object, live
    tvbox_m3u,      \* text written to outputs/tvbox.m3u
    full_m3u,       \* text written to outputs/full.m3u
    \* ---- the two static catchup injections applied to one URL
    inj_url,        \* the URL before any injection
    inj_catchup,    \* the catchup section of the configuration
    via_process_url, \* results of IPTVGenerator._process_url applied 1, 2, .. times
    via_generate_catchup, \* results of M3UGenerator._generate_catchup applied 1, 2, .. times
    \* ---- src/generator.py: IPTVGenerator.process_sources
    gen_config,     \* config: "sources" (each with what its url serves) and "catchup"
    futures,        \* per source, the future of _process_single_source
    self_channels,  \* self.channels, the fingerprint table, in insertion order
    gen_errors      \* what the except clause at generator.py:167 printed

mainvars == <<config, source_text, pending, sources_data, mpc, all_channels,
              unique_channels, merge_returned, merged_channels, tvbox_m3u, full_m3u>>
injvars == <<inj_url, inj_catchup, via_process_url, via_generate_catchup>>
detvars == <<stream_url, dpc, didx, result, requests>>
parsevars == <<content, parsed_merger, parsed_generator>>
genvars == <<gen_config, futures, self_channels, gen_errors>>
vars == <<detvars, parsevars, mainvars, injvars, genvars>>
\* what the actions of one part leave alone
notmain == <<detvars, parsevars, injvars, genvars>>
notdet == <<parsevars, mainvars, injvars, genvars>>
notparse == <<detvars, mainvars, injvars, genvars>>
notinj == <<detvars, parsevars, mainvars, genvars>>
notgen == <<detvars, parsevars, mainvars, injvars>>

(***************************************************************************)
(* Text helpers.                                                           *)
(***************************************************************************)
Q == "\""

\* s[from..to], empty when from > to
Slice(s, from, to) == IF from > to THEN <<>> ELSE SubSeq(s, from, to)

\* index of the first occurrence of token t in s at or after position from, 0 if none
IndexFrom(s, t, from) ==
    IF \E i \in from..Len(s) : s[i] = t
    THEN CHOOSE i \in from..Len(s) : s[i] = t /\ \A j \in from..(i - 1) : s[j] # t
    ELSE 0

\* Python: t in s (t a one-token string)
Contains(s, t) == \E i \in 1..Len(s) : s[i] = t

RECURSIVE Join(_, _)
\* Python: sep.join(parts), sep a token sequence
Join(parts, sep) ==
    IF Len(parts) = 0 THEN <<>>
    ELSE IF Len(parts) = 1 THEN parts[1]
    ELSE parts[1] \o sep \o Join(Tail(parts), sep)

RECURSIVE SplitAll(_, _)
\* Python: s.split(t), t a one-token separator
SplitAll(s, t) ==
    LET i == IndexFrom(s, t, 1)
    IN  IF i = 0 THEN <<s>>
        ELSE <<Slice(s, 1, i - 1)>> \o SplitAll(Slice(s, i + 1, Len(s)), t)

\* Python: s.split(t, 1)
SplitOnce(s, t) ==
    LET i == IndexFrom(s, t, 1)
    IN  IF i = 0 THEN <<s>>
        ELSE <<Slice(s, 1, i - 1), Slice(s, i + 1, Len(s))>>

\* Python: len(s) of one token
TokenLen(t) ==
    CASE t = "<now>" -> 19
      [] t = "http://epg/x.xml" -> 16
      [] t = "# Generated on " -> 15
      [] t \in {"http://x/cnn", "%7Butcend%7D"} -> 12
      [] t = "group-title" -> 11
      [] t \in {"http://x/a", "http://x/b", "#EXTINF:-1"} -> 10
      [] t \in {"timeshift", "x-tvg-url", "%7Butc%7D"} -> 9
      [] t \in {"playseek", "{utcend}", "tvg-logo", "tvg-name", "duration"} -> 8
      [] t \in {"#EXTM3U", "{start}", "catchup"} -> 7
      [] t \in {"tvg-id", "{days}"} -> 6
      [] t \in {".m3u8", "{utc}", "{sec}", "{end}", "Sport", "Other", "#note"} -> 5
      [] t \in {".mp4", "News", "flag", "src1", "src2", "src3"} -> 4
      [] t \in {".ts", ".TS", "CNN", "BBC", "abc", "old", "end", "dvr", "utc", "%3D", "%26", "%3F"} -> 3
      [] t \in {"id", "10", "20", ",#"} -> 2
      [] OTHER -> 1

\* Python: len(s)
RECURSIVE StrLen(_)
StrLen(s) == IF Len(s) = 0 THEN 0 ELSE TokenLen(s[1]) + StrLen(Tail(s))

(***************************************************************************)
(* urllib.parse as used by the code.                                       *)
(***************************************************************************)
\* urllib.parse.quote_plus on one token: the reserved characters of the
\* catchup templates are percent-encoded, a space becomes '+'.
QuoteToken(t) ==
    CASE t = "="        -> "%3D"
      [] t = "&"        -> "%26"
      [] t = "?"        -> "%3F"
      [] t = "{utc}"    -> "%7Butc%7D"
      [] t = "{utcend}" -> "%7Butcend%7D"
      [] t = " "        -> "+"
      [] OTHER          -> t

\* urllib.parse.unquote_plus on one token (parse_qs decodes names and values)
UnquoteToken(t) ==
    CASE t = "%3D"          -> "="
      [] t = "%26"          -> "&"
      [] t = "%3F"          -> "?"
      [] t = "%7Butc%7D"    -> "{utc}"
      [] t = "%7Butcend%7D" -> "{utcend}"
      [] t = "+"            -> " "
      [] OTHER              -> t

Quote(s) == [i \in 1..Len(s) |-> QuoteToken(s[i])]
Unquote(s) == [i \in 1..Len(s) |-> UnquoteToken(s[i])]

\* urlparse(url): the part before the first '?' and the query after it
\* (the model's URLs carry no fragment and no ;params)
urlparse(url) ==
    LET i == IndexFrom(url, "?", 1)
    IN  IF i = 0 THEN [base |-> url, query |-> <<>>]
        ELSE [base |-> Slice(url, 1, i - 1), query |-> Slice(url, i + 1, Len(url))]

\* urlunparse(parsed): a '?' is written only before a non-empty query
urlunparse(parsed) ==
    IF parsed.query = <<>> THEN parsed.base ELSE parsed.base \o <<"?">> \o parsed.query

\* The name=value fields parse_qs keeps, in order: a field without '=' and a
\* field with a blank value are skipped (keep_blank_values=False), names and
\* values are decoded.
RECURSIVE QsFields(_)
QsFields(segs) ==
    IF Len(segs) = 0 THEN <<>>
    ELSE LET nv == SplitOnce(segs[1], "=")
         IN  (IF Len(nv) = 2 /\ Len(nv[2]) > 0
              THEN <<[k |-> Unquote(nv[1]), v |-> Unquote(nv[2])]>>
              ELSE <<>>) \o QsFields(Tail(segs))

RECURSIVE GroupFields(_, _)
\* dict of lists in first-insertion order of the keys, as a sequence of
\* [k, vs]: parse_qs appends each value to the list of its name
GroupFields(fields, acc) ==
    IF Len(fields) = 0 THEN acc
    ELSE LET f == fields[1]
             at == IF \E i \in 1..Len(acc) : acc[i].k = f.k
                   THEN CHOOSE i \in 1..Len(acc) : acc[i].k = f.k
                   ELSE 0
         IN  GroupFields(Tail(fields),
                 IF at = 0 THEN Append(acc, [k |-> f.k, vs |-> <<f.v>>])
                 ELSE [acc EXCEPT ![at].vs = Append(@, f.v)])

\* parse_qs(query)
parse_qs(query) ==
    IF query = <<>> THEN <<>> ELSE GroupFields(QsFields(SplitAll(query, "&")), <<>>)

\* query[key] = [value]: overwrite in place, or insert at the end
DictSet(d, key, value) ==
    IF \E i \in 1..Len(d) : d[i].k = key
    THEN [i \in 1..Len(d) |-> IF d[i].k = key THEN [k |-> key, vs |-> <<value>>] ELSE d[i]]
    ELSE Append(d, [k |-> key, vs |-> <<value>>])

RECURSIVE EncodeEntries(_)
\* the name=value strings urlencode(query, doseq=True) writes, one per value
EncodeEntries(d) ==
    IF Len(d) = 0 THEN <<>>
    ELSE [j \in 1..Len(d[1].vs) |-> Quote(d[1].k) \o <<"=">> \o Quote(d[1].vs[j])]
         \o EncodeEntries(Tail(d))

\* urlencode(query, doseq=True)
urlencode(d) == Join(EncodeEntries(d), <<"&">>)


\* detector.py:128-133  the templates of _find_best_template, in list order
TplPlayseek == <<"playseek", "=", "{utc}", "-", "{utcend}">>
TplTimeshift == <<"timeshift", "=", "{sec}">>
TplUtcRange == <<"utc", "=", "{start}", "&", "end", "=", "{end}">>
TplDvr == <<"dvr", "=", "{days}">>

(***************************************************************************)
(* The M3U parsers: ChannelMerger.parse_m3u (src/core/merger.py) and       *)
(* IPTVGenerator._parse_m3u (src/generator.py).                            *)
(***************************************************************************)
\* tokens that begin with '#'
HashTokens == {"#EXTINF:-1", "#EXTM3U", "#note", "#", "# Generated on "}
\* tokens made of [a-zA-Z0-9-] only: what the attribute-name group matches
WordTokens ==
    {"tvg-id", "tvg-logo", "group-title", "duration", "News", "Sport", "CNN", "BBC",
     "1", "2", "5", "10", "20", "abc"}

\* Python: line.strip()
RECURSIVE Strip(_)
Strip(line) ==
    IF Len(line) = 0 THEN line
    ELSE IF line[1] = " " THEN Strip(Tail(line))
    ELSE IF line[Len(line)] = " " THEN Strip(Slice(line, 1, Len(line) - 1))
    ELSE line

\* Python: line.startswith('#EXTINF') / line.startswith('#')
StartsWithExtinf(line) == Len(line) > 0 /\ line[1] = "#EXTINF:-1"
StartsWithHash(line) == Len(line) > 0 /\ line[1] \in HashTokens

\* Python: ', ' in line
ContainsCommaSpace(line) == \E i \in 1..(Len(line) - 1) : line[i] = "," /\ line[i + 1] = " "

\* re.findall(r'([a-zA-Z0-9-]+)="([^"]*)"', line): the (name, value) pairs,
\* left to right, the scan resuming after each match
RECURSIVE FindAttrs(_, _)
FindAttrs(line, from) ==
    IF from > Len(line) - 3 THEN <<>>
    ELSE LET close == IndexFrom(line, Q, from + 3)
         IN  IF line[from] \in WordTokens /\ line[from + 1] = "=" /\ line[from + 2] = Q
                /\ close # 0
             THEN <<[k |-> line[from], v |-> Slice(line, from + 3, close - 1)]>>
                  \o FindAttrs(line, close + 1)
             ELSE FindAttrs(line, from + 1)

\* Python: int(value) succeeds
IsInt(value) == Len(value) = 1 /\ value[1] \in {"1", "2", "5", "10", "20"}
IntOf(value) ==
    CASE value[1] = "1" -> 1 [] value[1] = "2" -> 2 [] value[1] = "5" -> 5
      [] value[1] = "10" -> 10 [] value[1] = "20" -> 20 [] OTHER -> 0

Ok(value) == [raised |-> "", value |-> value]
Raise(exc) == [raised |-> exc, value |-> <<>>]

\* merger.py:18-25
ChannelMerger_default_channel ==
    [name |-> <<>>, group |-> <<"Other">>, tvg_id |-> <<>>, logo |-> <<>>,
     duration |-> -1, url |-> <<>>, source |-> <<>>]

RECURSIVE ChannelMerger_apply_attrs(_, _)
\* merger.py:33-41, one attribute after the other; int(value) may raise
ChannelMerger_apply_attrs(channel, attrs) ==
    IF Len(attrs) = 0 THEN Ok(channel)
    ELSE LET a == attrs[1]
         IN  CASE a.k = "group-title" ->
                    ChannelMerger_apply_attrs([channel EXCEPT !.group = a.v], Tail(attrs))
               [] a.k = "tvg-id" ->
                    ChannelMerger_apply_attrs([channel EXCEPT !.tvg_id = a.v], Tail(attrs))
               [] a.k = "tvg-logo" ->
                    ChannelMerger_apply_attrs([channel EXCEPT !.logo = a.v], Tail(attrs))
               [] a.k = "duration" ->
                    IF IsInt(a.v)
                    THEN ChannelMerger_apply_attrs([channel EXCEPT !.duration = IntOf(a.v)], Tail(attrs))
                    ELSE Raise("ValueError")
               [] OTHER -> ChannelMerger_apply_attrs(channel, Tail(attrs))

\* ChannelMerger._parse_extinf (merger.py:16-43).  Line 29 is
\* line.split(', ').strip(): split returns a list, a list has no strip, so a
\* line that contains ', ' raises AttributeError; on any other line the name
\* keeps its default ''.
ChannelMerger_parse_extinf(line) ==
    IF ContainsCommaSpace(line) THEN Raise("AttributeError")
    ELSE ChannelMerger_apply_attrs(ChannelMerger_default_channel, FindAttrs(line, 1))

RECURSIVE ChannelMerger_parse_lines(_, _, _, _)
\* the loop of parse_m3u (merger.py:50-61); current = <<>> stands for None
ChannelMerger_parse_lines(lines, source_url, current, channels) ==
    IF Len(lines) = 0 THEN Ok(channels)
    ELSE LET line == Strip(lines[1])
             rest == Tail(lines)
         IN  IF Len(line) = 0 THEN ChannelMerger_parse_lines(rest, source_url, current, channels)
             ELSE IF StartsWithExtinf(line)
             THEN LET r == ChannelMerger_parse_extinf(line)
                  IN  IF r.raised # "" THEN r
                      ELSE ChannelMerger_parse_lines(rest, source_url, <<r.value>>, channels)
             ELSE IF current # <<>> /\ ~StartsWithHash(line)
             THEN ChannelMerger_parse_lines(rest, source_url, <<>>,
                      Append(channels, [current[1] EXCEPT !.url = line, !.source = source_url]))
             ELSE ChannelMerger_parse_lines(rest, source_url, current, channels)

\* ChannelMerger.parse_m3u (merger.py:45-63)
ChannelMerger_parse_m3u(text, source_url) ==
    ChannelMerger_parse_lines(SplitAll(text, "\n"), source_url, <<>>, <<>>)

\* IPTVGenerator._process_url (generator.py:115-134); catchup is
\* config["catchup"] with the defaults of .get() filled in
IPTVGenerator_process_url(url, catchup) ==
    IF ~catchup.enable THEN url
    ELSE IF catchup.days <= 0 THEN url
    ELSE LET parsed == urlparse(url)
             query == DictSet(parse_qs(parsed.query), <<"playseek">>, catchup.format)
         IN  urlunparse([parsed EXCEPT !.query = urlencode(query)])

\* IPTVGenerator._parse_extinf (generator.py:87-113).  name_part is the list
\* line.split(",", 1); with a comma in the line, line 99 calls
\* name_part.strip() and raises AttributeError; without one, line 103 hands
\* the list itself to re.findall, which raises TypeError.
IPTVGenerator_parse_extinf(line) ==
    LET name_part == SplitOnce(line, ",")
    IN  IF Len(name_part) > 1 THEN Raise("AttributeError") ELSE Raise("TypeError")

\* a dict of _parse_m3u: has_meta tells whether the keys of _parse_extinf
\* (name, group, tvg_id, logo) and "priority" are present
IPTVGenerator_empty_meta ==
    [has_meta |-> FALSE, name |-> <<>>, group |-> <<>>, tvg_id |-> <<>>, logo |-> <<>>,
     priority |-> 0, url |-> <<>>]

RECURSIVE IPTVGenerator_parse_lines(_, _, _, _, _)
\* the loop of _parse_m3u (generator.py:47-58)
IPTVGenerator_parse_lines(lines, priority, catchup, current_meta, channels) ==
    IF Len(lines) = 0 THEN Ok(channels)
    ELSE LET line == Strip(lines[1])
             rest == Tail(lines)
         IN  IF Len(line) = 0
             THEN IPTVGenerator_parse_lines(rest, priority, catchup, current_meta, channels)
             ELSE IF StartsWithExtinf(line)
             THEN LET r == IPTVGenerator_parse_extinf(line)
                  IN  IF r.raised # "" THEN r
                      ELSE IPTVGenerator_parse_lines(rest, priority, catchup,
                               [r.value EXCEPT !.priority = priority], channels)
             ELSE IF ~StartsWithHash(line)
             THEN IPTVGenerator_parse_lines(rest, priority, catchup, IPTVGenerator_empty_meta,
                      Append(channels,
                             [current_meta EXCEPT !.url = IPTVGenerator_process_url(line, catchup)]))
             ELSE IPTVGenerator_parse_lines(rest, priority, catchup, current_meta, channels)

\* IPTVGenerator._parse_m3u (generator.py:42-60)
IPTVGenerator_parse_m3u(text, priority, catchup) ==
    IPTVGenerator_parse_lines(SplitAll(text, "\n"), priority, catchup,
                              IPTVGenerator_empty_meta, <<>>)

\* detector.py:29-35; <<>> stands for None
ZeroReport ==
    [supported |-> FALSE, max_days |-> 0, recommended_template |-> <<>>,
     latency_ms |-> 0, codec_info |-> "unknown"]

\* the detector at rest
DetIdle ==
    /\ stream_url = <<>> /\ dpc = "idle" /\ didx = 1
    /\ result = ZeroReport /\ requests = <<>>

\* IPTVGenerator not started
GenIdle == gen_config = <<>> /\ futures = <<>> /\ self_channels = <<>> /\ gen_errors = <<>>

\* no injection under way
InjIdle ==
    /\ inj_url = <<>> /\ inj_catchup = <<>>
    /\ via_process_url = <<>> /\ via_generate_catchup = <<>>

\* the main pipeline at rest
MainIdle ==
    /\ config = <<>> /\ source_text = <<>> /\ pending = {} /\ sources_data = <<>>
    /\ mpc = "idle" /\ all_channels = <<>> /\ unique_channels = <<>>
    /\ merge_returned = <<>> /\ merged_channels = <<>>
    /\ tvbox_m3u = <<>> /\ full_m3u = <<>>

(***************************************************************************)
(* SpecParse: both parsers applied to every listing of up to MaxLines      *)
(* lines.                                                                  *)
(***************************************************************************)
MaxLines == 3

LineHeader == <<"#EXTM3U">>
LineCnn ==
    <<"#EXTINF:-1", " ", "tvg-id", "=", Q, "1", Q, " ", "group-title", "=", Q, "News", Q,
      ",", "CNN">>
LineCommaSpace == <<"#EXTINF:-1", " ", "group-title", "=", Q, "Sport", Q, ",", " ", "BBC">>
LineBadDuration ==
    <<"#EXTINF:-1", " ", "duration", "=", Q, "abc", Q, " ", "group-title", "=", Q, "News", Q,
      ",", "BBC">>
LineNoComma == <<"#EXTINF:-1", " ", "tvg-id", "=", Q, "2", Q>>
LineUrlCnn == <<"http://x/cnn", ".m3u8">>
LineUrlB == <<" ", "http://x/b", ".ts">>
LineBlank == <<>>
ParseLines ==
    {LineHeader, LineCnn, LineCommaSpace, LineBadDuration, LineNoComma, LineUrlCnn, LineUrlB,
     LineBlank}

\* "\n".join(lines) + "\n"
RECURSIVE Listing(_)
Listing(lines) == IF Len(lines) = 0 THEN <<>> ELSE lines[1] \o <<"\n">> \o Listing(Tail(lines))

ParseContents == {Listing(ls) : ls \in UNION {[1..n -> ParseLines] : n \in 0..MaxLines}}

Pending == [raised |-> "pending", value |-> <<>>]
NoCatchup == [enable |-> FALSE, days |-> 3, format |-> TplPlayseek]

ParseIdle == content = <<>> /\ parsed_merger = Pending /\ parsed_generator = Pending

ParseInit ==
    /\ content \in ParseContents
    /\ parsed_merger = Pending
    /\ parsed_generator = Pending
    /\ DetIdle
    /\ MainIdle
    /\ InjIdle
    /\ GenIdle

\* merger.parse_m3u(content, url)
ParseMerger ==
    /\ parsed_merger = Pending
    /\ parsed_merger' = ChannelMerger_parse_m3u(content, <<"src1">>)
    /\ UNCHANGED <<content, parsed_generator, notparse>>

\* generator._parse_m3u(content, priority), catchup injection off
ParseGenerator ==
    /\ parsed_generator = Pending
    /\ parsed_generator' = IPTVGenerator_parse_m3u(content, 50, NoCatchup)
    /\ UNCHANGED <<content, parsed_merger, notparse>>

ParseNext == ParseMerger \/ ParseGenerator

SpecParse == ParseInit /\ [][ParseNext]_vars

(***************************************************************************)
(* main.py: SourceFetcher.fetch_all, ChannelMerger.merge and the two       *)
(* M3UGenerator.generate calls.                                            *)
(***************************************************************************)
\* Python: s.lower()
Lower(s) == [i \in 1..Len(s) |-> IF s[i] = ".TS" THEN ".ts" ELSE s[i]]

\* Python: s.endswith(ext), ext a one-token extension
EndsWith(s, ext) == Len(s) > 0 /\ s[Len(s)] = ext

\* _generate_channel_id (merger.py:11-14): md5 of "name|group", taken as
\* injective on the pairs
ChannelMerger_generate_channel_id(channel) == <<channel.name, channel.group>>

RECURSIVE ChannelMerger_parse_all_abort(_)
\* mutant of the try/except of merge: the first source whose parse raises
\* ends the loop over the sources
ChannelMerger_parse_all_abort(data) ==
    IF Len(data) = 0 THEN <<>>
    ELSE LET r == ChannelMerger_parse_m3u(data[1].text, data[1].url)
         IN  IF r.raised = "" THEN r.value \o ChannelMerger_parse_all_abort(Tail(data)) ELSE <<>>

RECURSIVE ChannelMerger_parse_all(_)
\* merge, lines 67-74: the sources in dict order; a source whose parse raises
\* is logged and contributes nothing
ChannelMerger_parse_all(data) ==
    IF Len(data) = 0 THEN <<>>
    ELSE LET r == ChannelMerger_parse_m3u(data[1].text, data[1].url)
         IN  (IF r.raised = "" THEN r.value ELSE <<>>) \o ChannelMerger_parse_all(Tail(data))

\* mutant of the comparison of merge: a record at least as long replaces
ChannelMerger_replaces_on_tie(channel, kept) == StrLen(channel.url) >= StrLen(kept.url)

\* merge, line 83: the new record replaces the kept one
ChannelMerger_replaces(channel, kept) == StrLen(channel.url) > StrLen(kept.url)

RECURSIVE ChannelMerger_dedupe(_, _)
\* merge, lines 77-84: unique is the dict as a sequence of records in
\* insertion order of their ids; replacing a value keeps the key's place
ChannelMerger_dedupe(channels, unique) ==
    IF Len(channels) = 0 THEN unique
    ELSE LET channel == channels[1]
             id == ChannelMerger_generate_channel_id(channel)
             at == IF \E i \in 1..Len(unique) : ChannelMerger_generate_channel_id(unique[i]) = id
                   THEN CHOOSE i \in 1..Len(unique) : ChannelMerger_generate_channel_id(unique[i]) = id
                   ELSE 0
         IN  ChannelMerger_dedupe(Tail(channels),
                 IF at = 0 THEN Append(unique, channel)
                 ELSE IF ChannelMerger_replaces(channel, unique[at])
                      THEN [unique EXCEPT ![at] = channel]
                      ELSE unique)

\* mutant of the duration test: the lower bound 0 < duration left out
ChannelMerger_too_short_no_floor(channel, filters) ==
    filters.min_duration > 0 /\ channel.duration < filters.min_duration

\* _apply_filters, line 96
ChannelMerger_too_short(channel, filters) ==
    filters.min_duration > 0 /\ 0 < channel.duration /\ channel.duration < filters.min_duration

\* _apply_filters, lines 100-101
ChannelMerger_extension_allowed(channel, filters) ==
    \E i \in 1..Len(filters.allowed_extensions) :
        EndsWith(Lower(channel.url), filters.allowed_extensions[i])

\* Python: [x for x in seq if keep(x)]
RECURSIVE ChannelMerger_apply_filters(_, _)
\* _apply_filters (merger.py:89-106)
ChannelMerger_apply_filters(channels, filters) ==
    IF Len(channels) = 0 THEN <<>>
    ELSE (IF ChannelMerger_too_short(channels[1], filters) THEN <<>>
          ELSE IF ~ChannelMerger_extension_allowed(channels[1], filters) THEN <<>>
          ELSE <<channels[1]>>)
         \o ChannelMerger_apply_filters(Tail(channels), filters)

\* M3UGenerator._generate_catchup (m3u_generator.py:8-24): the url of the
\* channel dict is extended in place and the same dict is returned
M3UGenerator_generate_catchup(channel, catchup) ==
    IF ~catchup.enable THEN channel
    ELSE [channel EXCEPT !.url =
              @ \o (IF Contains(@, "?") THEN <<"&">> ELSE <<"?">>) \o catchup.template]

\* the #EXTINF line of generate (m3u_generator.py:39-42)
M3UGenerator_extinf(channel) ==
    <<"#EXTINF:-1", " ", "tvg-id", "=", Q>> \o channel.tvg_id
    \o <<Q, " ", "tvg-name", "=", Q>> \o channel.name
    \o <<Q, " ", "tvg-logo", "=", Q>> \o channel.logo
    \o <<Q, " ", "group-title", "=", Q>> \o channel.group \o <<Q, ",">> \o channel.name

RECURSIVE M3UGenerator_entries(_)
\* the entries list of generate (lines 34-45), of channels already processed
M3UGenerator_entries(channels) ==
    IF Len(channels) = 0 THEN <<>>
    ELSE <<M3UGenerator_extinf(channels[1]), channels[1].url>>
         \o M3UGenerator_entries(Tail(channels))

\* M3UGenerator.generate (m3u_generator.py:26-47): the text returned and the
\* channel list as the call leaves it (the dicts of the caller's list are the
\* ones _generate_catchup changes)
M3UGenerator_generate(channels, full_format, cfg) ==
    LET after == IF full_format THEN channels
                 ELSE [i \in 1..Len(channels) |->
                          M3UGenerator_generate_catchup(channels[i], cfg.catchup)]
        header == IF full_format
                  THEN <<"#EXTM3U", " ", "x-tvg-url", "=", Q, cfg.epg, Q, "\n",
                         "# Generated on ", "<now>", "\n">>
                  ELSE <<"#EXTM3U">>
    IN  [text |-> header \o <<"\n">> \o Join(M3UGenerator_entries(after), <<"\n">>),
         channels |-> after]

\* the sources of the run and what each serves
MaxSources == 2
SourceUrl(i) == <<"src" \o ToString(i)>>
Sources == 1..MaxSources

LineNews == <<"#EXTINF:-1", " ", "tvg-id", "=", Q, "1", Q, " ", "group-title", "=", Q, "News", Q, ",", "CNN">>
LineSport5 == <<"#EXTINF:-1", " ", "duration", "=", Q, "5", Q, " ", "group-title", "=", Q, "Sport", Q, ",", "BBC">>
LineSport20 == <<"#EXTINF:-1", " ", "duration", "=", Q, "20", Q, " ", "group-title", "=", Q, "Sport", Q, ",", "BBC">>
UrlATs == <<"http://x/a", ".ts">>
UrlBTS == <<"http://x/b", ".TS">>
UrlAMp4 == <<"http://x/a", ".mp4">>
UrlATsQuery == <<"http://x/a", ".ts", "?", "id", "=", "5">>
SourceTexts ==
    { <<>>,
      Listing(<<LineHeader, LineNews, UrlATs>>),
      Listing(<<LineHeader, LineNews, LineUrlCnn, LineSport5, UrlBTS>>),
      Listing(<<LineNews, UrlBTS, LineSport20, UrlAMp4>>),
      Listing(<<LineSport5, UrlATsQuery, LineNews, UrlAMp4>>),
      Listing(<<LineNews, UrlATs, LineCommaSpace, LineUrlCnn>>) }

Configs ==
    [filters : [min_duration : {0, 10}, allowed_extensions : {<<".ts", ".m3u8">>}],
     catchup : [enable : BOOLEAN, days : {7}, template : {TplPlayseek}],
     epg : {"http://epg/x.xml"}]

Init ==
    /\ config \in Configs
    /\ source_text \in [Sources -> SourceTexts]
    /\ pending = Sources
    /\ sources_data = <<>>
    /\ mpc = "fetch"
    /\ all_channels = <<>> /\ unique_channels = <<>>
    /\ merge_returned = <<>> /\ merged_channels = <<>>
    /\ tvbox_m3u = <<>> /\ full_m3u = <<>>
    /\ DetIdle /\ ParseIdle /\ InjIdle /\ GenIdle

\* SourceFetcher.fetch (fetcher.py:22-39): the text, or None (<<>> here) when
\* the request fails
FetchOutcomes(i) == {source_text[i], <<>>}

\* fetch_all (fetcher.py:41-58): one future completes and the as_completed
\* loop stores its data if it is truthy
FetchCompleted(i) ==
    /\ mpc = "fetch" /\ i \in pending
    /\ \E data \in FetchOutcomes(i) :
        sources_data' = IF data # <<>>
                        THEN Append(sources_data, [url |-> SourceUrl(i), text |-> data])
                        ELSE sources_data
    /\ pending' = pending \ {i}
    /\ mpc' = IF pending' = {} THEN "merge" ELSE "fetch"
    /\ UNCHANGED <<config, source_text, all_channels, unique_channels, merge_returned,
                   merged_channels, tvbox_m3u, full_m3u, notmain>>

\* ChannelMerger.merge (merger.py:65-87), called at main.py:29
Merge ==
    /\ mpc = "merge"
    /\ LET all == ChannelMerger_parse_all(sources_data)
           unique == ChannelMerger_dedupe(all, <<>>)
           filtered == ChannelMerger_apply_filters(unique, config.filters)
       IN  /\ all_channels' = all
           /\ unique_channels' = unique
           /\ merge_returned' = filtered
           /\ merged_channels' = filtered
    /\ mpc' = "tvbox"
    /\ UNCHANGED <<config, source_text, pending, sources_data, tvbox_m3u, full_m3u,
                   notmain>>

\* main.py:37-38  m3u_gen.generate(merged_channels, full_format=False)
GenerateTvbox ==
    /\ mpc = "tvbox"
    /\ LET g == M3UGenerator_generate(merged_channels, FALSE, config)
       IN  tvbox_m3u' = g.text /\ merged_channels' = g.channels
    /\ mpc' = "full"
    /\ UNCHANGED <<config, source_text, pending, sources_data, all_channels, unique_channels,
                   merge_returned, full_m3u, notmain>>

\* main.py:41-42  m3u_gen.generate(merged_channels, full_format=True)
GenerateFull ==
    /\ mpc = "full"
    /\ LET g == M3UGenerator_generate(merged_channels, TRUE, config)
       IN  full_m3u' = g.text /\ merged_channels' = g.channels
    /\ mpc' = "txt"
    /\ UNCHANGED <<config, source_text, pending, sources_data, all_channels, unique_channels,
                   merge_returned, tvbox_m3u, notmain>>

\* main.py:45-46  txt_gen.generate(merged_channels): TXTGenerator defines no
\* generate, the call raises AttributeError and main() ends there
GenerateTxt ==
    /\ mpc = "txt"
    /\ mpc' = "AttributeError"
    /\ UNCHANGED <<config, source_text, pending, sources_data, all_channels, unique_channels,
                   merge_returned, merged_channels, tvbox_m3u, full_m3u, notmain>>

Next ==
    \/ \E i \in Sources : FetchCompleted(i)
    \/ Merge
    \/ GenerateTvbox
    \/ GenerateFull
    \/ GenerateTxt

Spec == Init /\ [][Next]_vars

(***************************************************************************)
(* SpecInject: IPTVGenerator._process_url and                              *)
(* M3UGenerator._generate_catchup applied, repeatedly, to one URL.         *)
(***************************************************************************)
MaxParams == 2
MaxInject == 2

\* query fields a URL may carry before injection
FieldId == <<"id", "=", "5">>
FieldBlank == <<"t", "=">>
FieldFlag == <<"flag">>
FieldPlayseek == <<"playseek", "=", "old">>
QueryFields == {FieldId, FieldBlank, FieldFlag, FieldPlayseek}

InjectUrls ==
    {UrlATs \o (IF Len(fs) = 0 THEN <<>> ELSE <<"?">> \o Join(fs, <<"&">>)) :
        fs \in UNION {[1..n -> QueryFields] : n \in 0..MaxParams}}

\* config["catchup"] of generator.py and config['tvbox']['catchup'] of
\* m3u_generator.py: the same flag, day count and template text
InjectConfigs ==
    [enable : BOOLEAN, days : {0, 3}, format : {TplPlayseek}, template : {TplPlayseek}]

InjectInit ==
    /\ inj_url \in InjectUrls
    /\ inj_catchup \in InjectConfigs
    /\ via_process_url = <<>>
    /\ via_generate_catchup = <<>>
    /\ DetIdle /\ ParseIdle /\ MainIdle /\ GenIdle

\* one more call of _process_url, on the result of the last
InjectProcessUrl ==
    /\ Len(via_process_url) < MaxInject
    /\ LET arg == IF Len(via_process_url) = 0 THEN inj_url
                  ELSE via_process_url[Len(via_process_url)]
       IN  via_process_url' = Append(via_process_url, IPTVGenerator_process_url(arg, inj_catchup))
    /\ UNCHANGED <<inj_url, inj_catchup, via_generate_catchup, notinj>>

\* one more call of _generate_catchup, on the same channel dict
InjectGenerateCatchup ==
    /\ Len(via_generate_catchup) < MaxInject
    /\ LET arg == IF Len(via_generate_catchup) = 0 THEN inj_url
                  ELSE via_generate_catchup[Len(via_generate_catchup)]
           channel == [ChannelMerger_default_channel EXCEPT !.url = arg]
       IN  via_generate_catchup' =
               Append(via_generate_catchup, M3UGenerator_generate_catchup(channel, inj_catchup).url)
    /\ UNCHANGED <<inj_url, inj_catchup, via_process_url, notinj>>

InjectNext == InjectProcessUrl \/ InjectGenerateCatchup

SpecInject == InjectInit /\ [][InjectNext]_vars

(***************************************************************************)
(* src/generator.py: IPTVGenerator.process_sources, the worker             *)
(* _process_single_source and the collecting loop.                         *)
(***************************************************************************)
\* IPTVGenerator._parse_txt (generator.py:62-85).  Line 72 is
\* parts = line.split(",#", 1) and line 73 name = parts.strip(): parts is a
\* list, so the first line that holds the delimiter raises AttributeError;
\* lines without it are skipped.
RECURSIVE IPTVGenerator_parse_txt_lines(_, _, _)
IPTVGenerator_parse_txt_lines(lines, priority, catchup) ==
    IF Len(lines) = 0 THEN Ok(<<>>)
    ELSE LET line == Strip(lines[1])
         IN  IF Len(line) = 0 \/ StartsWithHash(line)
             THEN IPTVGenerator_parse_txt_lines(Tail(lines), priority, catchup)
             ELSE IF Contains(line, ",#") THEN Raise("AttributeError")
             ELSE IPTVGenerator_parse_txt_lines(Tail(lines), priority, catchup)

IPTVGenerator_parse_txt(text, priority, catchup) ==
    IPTVGenerator_parse_txt_lines(SplitAll(text, "\n"), priority, catchup)

\* generator.py:184  "#EXTM3U" in content[:20]
MarkerInFirst20(text) ==
    \E i \in 1..Len(text) : text[i] = "#EXTM3U" /\ StrLen(Slice(text, 1, i - 1)) + 7 <= 20

\* _process_single_source (generator.py:170-189), given what _fetch_source
\* returned (<<>> stands for None and for the empty text)
IPTVGenerator_process_single_source(fetched, src_type, priority, catchup) ==
    IF fetched = <<>> THEN Ok(<<>>)
    ELSE LET type == IF src_type = "auto"
                     THEN (IF MarkerInFirst20(fetched) THEN "m3u" ELSE "txt")
                     ELSE src_type
         IN  IF type = "m3u" THEN IPTVGenerator_parse_m3u(fetched, priority, catchup)
             ELSE IPTVGenerator_parse_txt(fetched, priority, catchup)

\* _channel_key (generator.py:136-139): md5 of "group|name|tvg_id", taken as
\* injective on the triples
IPTVGenerator_channel_key(chan) == <<chan.group, chan.name, chan.tvg_id>>

\* mutant of the comparison at generator.py:165: a record of equal priority replaces
IPTVGenerator_replaces_on_tie(existing, chan) == existing.priority <= chan.priority

\* generator.py:165  existing["priority"] < chan["priority"]
IPTVGenerator_replaces(existing, chan) == existing.priority < chan.priority

RECURSIVE IPTVGenerator_collect(_, _)
\* the for loop at generator.py:160-166 over one future's channels; a dict
\* without the keys of _parse_extinf makes _channel_key raise KeyError, which
\* ends the loop (the try encloses it)
IPTVGenerator_collect(chans, table) ==
    IF Len(chans) = 0 THEN [table |-> table, raised |-> ""]
    ELSE LET chan == chans[1]
             id == IPTVGenerator_channel_key(chan)
             at == IF \E k \in 1..Len(table) : table[k].id = id
                   THEN CHOOSE k \in 1..Len(table) : table[k].id = id
                   ELSE 0
         IN  IF ~chan.has_meta THEN [table |-> table, raised |-> "KeyError"]
             ELSE IPTVGenerator_collect(Tail(chans),
                      IF at = 0 THEN Append(table, [id |-> id, chan |-> chan])
                      ELSE IF IPTVGenerator_replaces(table[at].chan, chan)
                           THEN [table EXCEPT ![at].chan = chan]
                           ELSE table)

MaxGenSources == 2
GenSources == 1..MaxGenSources

TxtCnnA == <<"CNN", ",#", "http://x/a", ".ts">>
TxtCnnLong == <<"CNN", ",#", "http://x/cnn", ".m3u8">>
TxtCnnB == <<"CNN", ",#", "http://x/b", ".TS">>
\* what a source may be: its type and the text its url serves
GenSourceKinds ==
    { [type |-> "auto", text |-> Listing(<<TxtCnnA, TxtCnnLong>>)],
      [type |-> "auto", text |-> Listing(<<TxtCnnB>>)],
      [type |-> "auto", text |-> Listing(<<LineHeader, LineNews, UrlATs>>)],
      [type |-> "m3u", text |-> Listing(<<UrlATs, UrlBTS>>)],
      [type |-> "auto", text |-> Listing(<<<<"#note">>, UrlATs>>)] }
GenPriorities == {10, 50}

Running == [state |-> "running", fetched |-> <<>>, outcome |-> Pending]

GenInit ==
    /\ gen_config \in
          [sources : [GenSources -> [kind : GenSourceKinds, priority : GenPriorities]],
           catchup : [enable : BOOLEAN, days : {3}, format : {TplPlayseek}]]
    /\ futures = [i \in GenSources |-> Running]
    /\ self_channels = <<>>
    /\ gen_errors = <<>>
    /\ DetIdle /\ ParseIdle /\ MainIdle /\ InjIdle

\* a worker thread runs _process_single_source to its end; _fetch_source
\* returns the text or, on any failure, None
WorkerReturns(i) ==
    /\ futures[i].state = "running"
    /\ \E fetched \in {gen_config.sources[i].kind.text, <<>>} :
        futures' = [futures EXCEPT ![i] =
            [state |-> "done", fetched |-> fetched,
             outcome |-> IPTVGenerator_process_single_source(fetched,
                             gen_config.sources[i].kind.type, gen_config.sources[i].priority,
                             gen_config.catchup)]]
    /\ UNCHANGED <<gen_config, self_channels, gen_errors, notgen>>

\* the collecting thread takes a completed future from as_completed and runs
\* the loop body (generator.py:157-168)
Collect(i) ==
    /\ futures[i].state = "done"
    /\ LET out == futures[i].outcome
           got == IF out.raised # "" THEN [table |-> self_channels, raised |-> out.raised]
                  ELSE IPTVGenerator_collect(out.value, self_channels)
       IN  /\ self_channels' = got.table
           /\ gen_errors' = IF got.raised # "" THEN Append(gen_errors, got.raised) ELSE gen_errors
    /\ futures' = [futures EXCEPT ![i].state = "collected"]
    /\ UNCHANGED <<gen_config, notgen>>

GenNext == \E i \in GenSources : WorkerReturns(i) \/ Collect(i)

SpecGen == GenInit /\ [][GenNext]_vars

(***************************************************************************)
(* src/detector.py                                                         *)
(***************************************************************************)
\* mutant of test_days: the list walked as written, smallest window first
test_days_unsorted == <<1, 3, 7, 15, 30>>

\* detector.py:42-43  sorted([1, 3, 7, 15, 30], reverse=True)
test_days == <<30, 15, 7, 3, 1>>

\* mutant of find_templates: the order of the list in _apply_catchup_params
find_templates_reordered == <<TplDvr, TplPlayseek, TplTimeshift, TplUtcRange>>
find_templates == <<TplPlayseek, TplTimeshift, TplUtcRange, TplDvr>>

\* detector.py:90-95  the (template, type) list of _apply_catchup_params
apply_templates ==
    << [tpl |-> TplPlayseek, type |-> "utc"], [tpl |-> TplTimeshift, type |-> "sec"],
       [tpl |-> TplDvr, type |-> "days"], [tpl |-> TplUtcRange, type |-> "range"] >>

\* detector.py:4  from urllib.parse import urlparse, urlencode, parse_qs:
\* the name urlunparse, used at lines 120 and 165, is not bound in the module
UrlunparseImported == FALSE

\* template.format(...) of detector.py:102-115: the placeholders replaced by
\* the values for a window of so many days ("now" is one fixed instant)
FormatParam(tpl, days) ==
    [i \in 1..Len(tpl) |->
        CASE tpl[i] = "{utc}"    -> "utc-" \o ToString(days) \o "d"
          [] tpl[i] = "{utcend}" -> "utc-now"
          [] tpl[i] = "{sec}"    -> ToString(days * 86400)
          [] tpl[i] = "{days}"   -> ToString(days)
          [] tpl[i] = "{start}"  -> "epoch-" \o ToString(days) \o "d"
          [] tpl[i] = "{end}"    -> "epoch-now"
          [] OTHER               -> tpl[i]]

\* detector.py:117-120  query["catchup"] = [param] and the URL rebuilt
WithCatchupParam(url, param) ==
    LET parsed == urlparse(url)
    IN  urlunparse([parsed EXCEPT !.query = urlencode(DictSet(parse_qs(parsed.query), <<"catchup">>, param))])

\* _apply_catchup_params (detector.py:88-124): the first template is formatted,
\* then line 120 calls urlunparse; unbound, it raises NameError, the bare
\* except at 121 goes on to the next template, where the same happens; after
\* the loop line 124 returns the URL as it came.
StreamDetector_apply_catchup_params(url, days) ==
    IF UrlunparseImported
    THEN WithCatchupParam(url, FormatParam(apply_templates[1].tpl, days))
    ELSE url

\* _apply_template (detector.py:141-167): the branch is chosen by substring
\* ("utc" in template is also true of utc={start}&end={end}, whose format()
\* then raises KeyError); a formatted parameter reaches urlunparse at line
\* 165, which raises NameError; the bare except at 166 returns the URL.
StreamDetector_apply_template(url, template) ==
    IF UrlunparseImported /\ template # TplUtcRange
    THEN WithCatchupParam(url, FormatParam(template, 1))
    ELSE url

\* What the server may answer to one request: the call raises (timeout,
\* connection error), or returns a status and a Content-Type.
Raised == [raised |-> TRUE, status |-> 0, ctype |-> ""]
Answer(status, ctype) == [raised |-> FALSE, status |-> status, ctype |-> ctype]
\* answers to a probe that reads the status only (lines 66 and 173)
StatusResponses == {Raised, Answer(200, "text/html"), Answer(404, "text/html")}
\* answers to a look-back probe, which also reads the Content-Type (line 83)
LookbackResponses ==
    {Raised, Answer(404, "text/html"), Answer(200, "text/html"),
     Answer(200, "application/vnd.apple.mpegurl")}
\* answers to the streaming GET (lines 186-200)
GetResponses ==
    {Raised, Answer(200, "application/vnd.apple.mpegurl"), Answer(200, "video/mp2t"),
     Answer(200, "video/x-flv"), Answer(200, "text/html")}

\* detector.py:83  startswith(("video/", "application/vnd.apple.mpegurl"))
IsStreamContentType(ctype) ==
    ctype \in {"video/mp2t", "video/x-flv", "application/vnd.apple.mpegurl"}

\* one entry of the request log: the call, its argument (window in days or
\* template index) and what the server answered
Request(method, step, url, arg, resp) ==
    [method |-> method, step |-> step, url |-> url, arg |-> arg, resp |-> resp]

\* mutant of _test_connection: any answer counts, whatever its status
StreamDetector_test_connection_any_status(resp) == ~resp.raised

\* _test_connection (detector.py:57-69) and the gate at 38-39
StreamDetector_test_connection(resp) == ~resp.raised /\ resp.status = 200

\* _test_catchup_day (detector.py:71-86), given the answer to its HEAD
StreamDetector_test_catchup_day(resp) ==
    ~resp.raised /\ resp.status = 200 /\ IsStreamContentType(resp.ctype)

\* _test_template (detector.py:169-175)
StreamDetector_test_template(resp) == ~resp.raised /\ resp.status = 200

\* detect_catchup_capability lines 37-39
TestConnection ==
    /\ dpc = "connect"
    /\ \E resp \in StatusResponses :
        /\ requests' = Append(requests, Request("HEAD", "connect", stream_url, 0, resp))
        /\ dpc' = IF StreamDetector_test_connection(resp) THEN "lookback" ELSE "done"
    /\ didx' = 1
    /\ UNCHANGED <<stream_url, result, notdet>>

\* detect_catchup_capability lines 41-47: one iteration of the window loop
TestCatchupDay ==
    /\ dpc = "lookback"
    /\ \E resp \in LookbackResponses :
        LET days == test_days[didx]
            ok == StreamDetector_test_catchup_day(resp)
        IN  /\ requests' = Append(requests,
                   Request("HEAD", "lookback", StreamDetector_apply_catchup_params(stream_url, days), days, resp))
            /\ result' = IF ok THEN [result EXCEPT !.max_days = days, !.supported = TRUE] ELSE result
            /\ IF ok \/ didx = Len(test_days)
               THEN dpc' = "template" /\ didx' = 1
               ELSE dpc' = dpc /\ didx' = didx + 1
    /\ UNCHANGED <<stream_url, notdet>>

\* _find_best_template (detector.py:126-139): one iteration of the template loop
TestTemplate ==
    /\ dpc = "template"
    /\ \E resp \in StatusResponses :
        LET template == find_templates[didx]
            ok == StreamDetector_test_template(resp)
        IN  /\ requests' = Append(requests,
                   Request("HEAD", "template", StreamDetector_apply_template(stream_url, template), didx, resp))
            /\ result' = IF ok THEN [result EXCEPT !.recommended_template = template] ELSE result
            /\ IF ok \/ didx = Len(find_templates)
               THEN dpc' = "metadata" /\ didx' = 1
               ELSE dpc' = dpc /\ didx' = didx + 1
    /\ UNCHANGED <<stream_url, notdet>>

\* the first 512 bytes of the body, as far as lines 204-208 tell them apart;
\* "raises": iter_content raises, the bare except at 209 keeps what was set
BodySamples == {"#EXTM3U", "0x47", "other", "raises"}
\* int((time.time() - start) * 1000)
Latencies == {0, 40}

\* the codec named by the Content-Type header (detector.py:194-200)
CodecByHeader(ctype) ==
    CASE ctype = "application/vnd.apple.mpegurl" -> "HLS"
      [] ctype = "video/mp2t" -> "MPEG-TS"
      [] ctype = "video/x-flv" -> "FLV"
      [] OTHER -> "unknown"

\* mutant of _get_stream_metadata: the latency is kept when the GET raises
StreamDetector_get_stream_metadata_keeps_latency(resp, latency, sample) ==
    [codec_info |-> IF resp.raised THEN "unknown" ELSE CodecByHeader(resp.ctype),
     latency_ms |-> latency]

\* _get_stream_metadata (detector.py:177-212)
StreamDetector_get_stream_metadata(resp, latency, sample) ==
    IF resp.raised THEN [codec_info |-> "unknown", latency_ms |-> 0]
    ELSE LET byBody ==
                 CASE sample = "#EXTM3U" -> "HLS"
                   [] sample = "0x47" -> "MPEG-TS"
                   [] OTHER -> "unknown"
         IN  [codec_info |-> IF CodecByHeader(resp.ctype) # "unknown"
                              THEN CodecByHeader(resp.ctype) ELSE byBody,
              latency_ms |-> latency]

\* detect_catchup_capability line 53: result.update(_get_stream_metadata(url));
\* the body is read only when the header names no codec (line 203)
GetStreamMetadata ==
    /\ dpc = "metadata"
    /\ \E resp \in GetResponses, latency \in Latencies :
        \E sample \in (IF ~resp.raised /\ CodecByHeader(resp.ctype) = "unknown"
                       THEN BodySamples ELSE {"unread"}) :
        LET md == StreamDetector_get_stream_metadata(resp, latency, sample)
        IN  /\ requests' = Append(requests, Request("GET", "metadata", stream_url, 0, resp))
            /\ result' = [result EXCEPT !.codec_info = md.codec_info, !.latency_ms = md.latency_ms]
    /\ dpc' = "done"
    /\ UNCHANGED <<stream_url, didx, notdet>>

\* the stream URLs tried
UrlPlain == <<"http://x/a", ".m3u8">>
UrlQuery == <<"http://x/a", ".m3u8", "?", "id", "=", "5">>
StreamUrls == {UrlPlain, UrlQuery}

DetInit ==
    /\ stream_url \in StreamUrls
    /\ dpc = "connect"
    /\ didx = 1
    /\ result = ZeroReport
    /\ requests = <<>>
    /\ ParseIdle
    /\ MainIdle
    /\ InjIdle
    /\ GenIdle

DetNext == TestConnection \/ TestCatchupDay \/ TestTemplate \/ GetStreamMetadata

SpecDet == DetInit /\ [][DetNext]_vars
(***************************************************************************)
(* Claims about the detector, checked under SpecDet.                       *)
(***************************************************************************)
\* the entries of the request log made by one step, in order
RECURSIVE StepRequests(_, _)
StepRequests(log, step) ==
    IF Len(log) = 0 THEN <<>>
    ELSE (IF log[1].step = step THEN <<log[1]>> ELSE <<>>) \o StepRequests(Tail(log), step)

LookbackLog == StepRequests(requests, "lookback")
TemplateLog == StepRequests(requests, "template")
\* a look-back probe succeeds: HTTP 200 and a stream content type
WindowSucceeded(r) ==
    /\ ~r.resp.raised /\ r.resp.status = 200
    /\ r.resp.ctype \in {"video/mp2t", "video/x-flv", "application/vnd.apple.mpegurl"}
GateFailed == Len(requests) > 0 /\ (requests[1].resp.raised \/ requests[1].resp.status # 200)
LookbackOver == dpc \in {"template", "metadata", "done"} /\ ~GateFailed

\* C4: the look-back windows are probed in the order 30, 15, 7, 3, 1; a window
\* is probed only after every larger one was probed and failed; the first
\* window that succeeds is reported as max_days with supported = TRUE and no
\* smaller window is probed; if none succeeds the report keeps supported =
\* FALSE and max_days = 0.
C4_LookbackOrder ==
    /\ Len(LookbackLog) <= 5
    /\ \A i \in 1..Len(LookbackLog) : LookbackLog[i].arg = <<30, 15, 7, 3, 1>>[i]
    /\ \A i \in 1..(Len(LookbackLog) - 1) : ~WindowSucceeded(LookbackLog[i])
    /\ \A i \in 1..Len(LookbackLog) :
          WindowSucceeded(LookbackLog[i]) =>
              /\ result.supported /\ result.max_days = LookbackLog[i].arg
              /\ \A j \in 1..Len(LookbackLog) : LookbackLog[j].arg >= result.max_days
    /\ (LookbackOver /\ \A i \in 1..Len(LookbackLog) : ~WindowSucceeded(LookbackLog[i]))
          => (Len(LookbackLog) = 5 /\ ~result.supported /\ result.max_days = 0)
    /\ result.supported => \E i \in 1..Len(LookbackLog) : WindowSucceeded(LookbackLog[i])

\* the run found window 7 after windows 30 and 15 failed
C4_Witness ==
    /\ dpc = "done" /\ result.supported /\ result.max_days = 7
    /\ Len(LookbackLog) = 3

\* a template probe succeeds: HTTP 200
TemplateSucceeded(r) == ~r.resp.raised /\ r.resp.status = 200
TemplateOver == dpc \in {"metadata", "done"} /\ ~GateFailed
TemplateOrder ==
    << <<"playseek", "=", "{utc}", "-", "{utcend}">>, <<"timeshift", "=", "{sec}">>,
       <<"utc", "=", "{start}", "&", "end", "=", "{end}">>, <<"dvr", "=", "{days}">> >>

\* C5: the templates are probed in the order playseek, timeshift, utc/end, dvr
\* and the first whose probe returns HTTP 200 is the recommended template
\* (none if no probe does); when the playseek probe succeeds the playseek
\* form is recommended and no other template is probed.
C5_TemplatePriority ==
    /\ Len(TemplateLog) <= 4
    /\ \A i \in 1..Len(TemplateLog) : LET r == TemplateLog[i] IN r.arg = i
    /\ \A i \in 1..(Len(TemplateLog) - 1) : ~TemplateSucceeded(TemplateLog[i])
    /\ \A i \in 1..Len(TemplateLog) :
          TemplateSucceeded(TemplateLog[i]) => result.recommended_template = TemplateOrder[i]
    /\ (TemplateOver /\ \A i \in 1..Len(TemplateLog) : ~TemplateSucceeded(TemplateLog[i]))
          => (Len(TemplateLog) = 4 /\ result.recommended_template = <<>>)
    /\ (Len(TemplateLog) > 0 /\ TemplateSucceeded(TemplateLog[1]))
          => (Len(TemplateLog) = 1 /\ result.recommended_template = TemplateOrder[1])

\* the playseek probe returned 200 and the run is over
C5_Witness ==
    /\ dpc = "done" /\ Len(TemplateLog) = 1 /\ TemplateSucceeded(TemplateLog[1])
    /\ result.recommended_template = <<"playseek", "=", "{utc}", "-", "{utcend}">>

\* C6: when the connectivity probe raises or returns a status other than 200
\* the run is over with the zero report and that probe is the only request.
C6_ConnectivityGate ==
    GateFailed => (dpc = "done" /\ result = ZeroReport /\ Len(requests) = 1)

\* the connectivity probe returned 404
C6_Witness ==
    /\ dpc = "done" /\ Len(requests) = 1
    /\ ~requests[1].resp.raised /\ requests[1].resp.status = 404
\* position of a window in the list the loop walks
WindowIndex(d) == CHOOSE i \in 1..Len(test_days) : test_days[i] = d

\* what follows request k when its call raised: the probe of the next
\* window, the next template or the next step, issued already or due next
FollowedByNext(k) ==
    LET r == requests[k]
        last == k = Len(requests)
    IN  CASE r.step = "lookback" /\ WindowIndex(r.arg) < Len(test_days) ->
                IF last THEN dpc = "lookback" /\ didx = WindowIndex(r.arg) + 1
                ELSE requests[k + 1].step = "lookback"
                     /\ requests[k + 1].arg = test_days[WindowIndex(r.arg) + 1]
          [] r.step = "lookback" /\ WindowIndex(r.arg) = Len(test_days) ->
                IF last THEN dpc = "template" /\ didx = 1
                ELSE requests[k + 1].step = "template" /\ requests[k + 1].arg = 1
          [] r.step = "template" /\ r.arg < Len(find_templates) ->
                IF last THEN dpc = "template" /\ didx = r.arg + 1
                ELSE requests[k + 1].step = "template" /\ requests[k + 1].arg = r.arg + 1
          [] r.step = "template" /\ r.arg = Len(find_templates) ->
                IF last THEN dpc = "metadata" ELSE requests[k + 1].step = "metadata"
          [] r.step = "metadata" ->
                last /\ dpc = "done" /\ result.codec_info = "unknown" /\ result.latency_ms = 0
          [] OTHER -> TRUE

\* C13: past the connectivity gate a probe whose call raises (network error,
\* timeout) is a negative result: the run goes on with the next window, the
\* next template or the next step (window 30 is followed by window 15, the
\* playseek template by timeshift), a raising GET leaves codec_info unknown
\* and latency_ms 0, and a run that is over past the gate ended with the GET,
\* that is with the report returned at line 55.
C13_ProbeFailureNotFatal ==
    /\ dpc \in {"connect", "lookback", "template", "metadata", "done"}
    /\ \A k \in 1..Len(requests) : requests[k].resp.raised => FollowedByNext(k)
    /\ (dpc = "done" /\ Len(requests) > 1) => requests[Len(requests)].step = "metadata"

\* a run in which the window-30 probe, the playseek probe and the GET raised
C13_Witness ==
    /\ dpc = "done"
    /\ \E k \in 1..Len(requests) :
          requests[k].step = "lookback" /\ requests[k].arg = 30 /\ requests[k].resp.raised
    /\ \E k \in 1..Len(requests) :
          requests[k].step = "template" /\ requests[k].arg = 1 /\ requests[k].resp.raised
    /\ requests[Len(requests)].step = "metadata" /\ requests[Len(requests)].resp.raised

(***************************************************************************)
(* Claims about the parsers, checked under SpecParse.                      *)
(***************************************************************************)
\* a listing made of the header, one #EXTINF line with tvg-id and
\* group-title attributes, a comma and a display name, and one URL line
WellFormedEntry(id, grp, name, url) ==
    Listing(<< <<"#EXTM3U">>,
               <<"#EXTINF:-1", " ", "tvg-id", "=", Q, id, Q, " ", "group-title", "=", Q, grp, Q,
                 ",", name>>,
               url >>)

\* the parse is exactly one record with these four fields
IsTheRecord(parsed, id, grp, name, url) ==
    /\ parsed.raised = ""
    /\ Len(parsed.value) = 1
    /\ parsed.value[1].name = <<name>>
    /\ parsed.value[1].group = <<grp>>
    /\ parsed.value[1].tvg_id = <<id>>
    /\ parsed.value[1].url = url

\* C9: both parsers turn a well-formed entry (header, #EXTINF with tvg-id and
\* group-title, display name after the first comma, URL line) into exactly
\* one record with that name, group, tvg_id and url.
C9_WellFormedEntry ==
    \A id \in {"1", "2"}, grp \in {"News", "Sport"}, name \in {"CNN", "BBC"},
       url \in {LineUrlCnn} :
        content = WellFormedEntry(id, grp, name, url) =>
            /\ parsed_merger # Pending => IsTheRecord(parsed_merger, id, grp, name, url)
            /\ parsed_generator # Pending => IsTheRecord(parsed_generator, id, grp, name, url)

\* the number of URL lines that close a pending #EXTINF line
RECURSIVE ClosingUrlLines(_, _)
ClosingUrlLines(lines, open) ==
    IF Len(lines) = 0 THEN 0
    ELSE LET line == Strip(lines[1])
         IN  IF Len(line) = 0 THEN ClosingUrlLines(Tail(lines), open)
             ELSE IF line[1] = "#EXTINF:-1" THEN ClosingUrlLines(Tail(lines), TRUE)
             ELSE IF line[1] \in HashTokens THEN ClosingUrlLines(Tail(lines), open)
             ELSE (IF open THEN 1 ELSE 0) + ClosingUrlLines(Tail(lines), FALSE)

DanglingRule(parsed) ==
    parsed # Pending =>
        /\ parsed.raised = ""
        /\ Len(parsed.value) = ClosingUrlLines(SplitAll(content, "\n"), FALSE)
        /\ \A i \in 1..Len(parsed.value) : parsed.value[i].url # <<>>

\* C10: a dangling #EXTINF line makes no record and no error: each parser
\* returns without raising, as many records as there are URL lines closing a
\* pending #EXTINF line, each record with a non-empty url.
C10_DanglingMetadata == DanglingRule(parsed_merger) /\ DanglingRule(parsed_generator)
HasLine(l) == \E i \in 1..Len(SplitAll(content, "\n")) : SplitAll(content, "\n")[i] = l

\* C11: an #EXTINF line with an unparseable duration ("abc") does not abort
\* the parse of its source: ChannelMerger.parse_m3u returns without raising,
\* with one record per URL line that closes an #EXTINF line (the entries
\* before and after the offending line included), and the duration that
\* could not be read stays at its default -1.  Listings with the ', ' of C9
\* are left out.
C11_MalformedAttribute ==
    (parsed_merger # Pending /\ HasLine(LineBadDuration) /\ ~HasLine(LineCommaSpace)) =>
        /\ parsed_merger.raised = ""
        /\ Len(parsed_merger.value) = ClosingUrlLines(SplitAll(content, "\n"), FALSE)
        /\ \A i \in 1..Len(parsed_merger.value) : parsed_merger.value[i].duration = -1

(***************************************************************************)
(* Claims about the main pipeline, checked under Spec.                     *)
(***************************************************************************)
\* The rank the configuration gives a source.  main.py and ChannelMerger
\* never read one; the rank is the spec's ChannelRecord.priority of the
\* records of that source.
SourcePriority(url) ==
    CASE url = <<"src1">> -> 90
      [] url = <<"src2">> -> 10
      [] OTHER -> 50

Merged == mpc \in {"tvbox", "full", "txt", "AttributeError"}
SameFingerprint(a, b) == a.name = b.name /\ a.group = b.group

\* C1: of two parsed records with the same fingerprint and different
\* priority the deduplicated catalog never holds the one of lower priority,
\* whatever the order in which the sources were processed.
C1_PriorityWins ==
    Merged =>
        \A i \in 1..Len(unique_channels), j \in 1..Len(all_channels) :
            SameFingerprint(unique_channels[i], all_channels[j]) =>
                SourcePriority(all_channels[j].source) <= SourcePriority(unique_channels[i].source)

\* the filtering rule, stated on one record
DropRule(channel, filters) ==
    \/ /\ filters.min_duration > 0
       /\ 0 < channel.duration
       /\ channel.duration < filters.min_duration
    \/ \A i \in 1..Len(filters.allowed_extensions) :
          \/ Len(channel.url) = 0
          \/ Lower(channel.url)[Len(channel.url)] # filters.allowed_extensions[i]

InSeq(x, seq) == \E k \in 1..Len(seq) : seq[k] = x

\* C3: merge returns, in order, exactly the deduplicated records that the
\* rule does not drop: a record is dropped iff (a) min_duration > 0 and
\* 0 < duration < min_duration, or (b) its lowercased url ends with none of
\* the allowed extensions; so a live record (duration -1) is never dropped
\* for its duration.
C3_FilterRule ==
    Merged =>
        /\ \A i \in 1..Len(unique_channels) :
              InSeq(unique_channels[i], merge_returned)
                  <=> ~DropRule(unique_channels[i], config.filters)
        /\ \A k \in 1..Len(merge_returned) : InSeq(merge_returned[k], unique_channels)
        /\ \A i \in 1..Len(unique_channels) :
              (unique_channels[i].duration = -1
                 /\ \E e \in 1..Len(config.filters.allowed_extensions) :
                       EndsWith(Lower(unique_channels[i].url), config.filters.allowed_extensions[e]))
                  => InSeq(unique_channels[i], merge_returned)

\* with min_duration 10: a record of duration 5 with an allowed extension
\* was dropped, a live record was kept, one record ending in .ts (any case)
\* was kept and one ending in .mp4 was dropped
C3_Witness ==
    /\ Merged /\ config.filters.min_duration = 10
    /\ \E i \in 1..Len(unique_channels) :
          /\ unique_channels[i].duration = 5
          /\ EndsWith(Lower(unique_channels[i].url), ".ts")
          /\ ~InSeq(unique_channels[i], merge_returned)
    /\ \E i \in 1..Len(unique_channels) :
          /\ unique_channels[i].duration = -1
          /\ InSeq(unique_channels[i], merge_returned)

\* the URL lines of an M3U text: the lines that are not empty and do not
\* begin with '#'
RECURSIVE UrlLinesOf(_)
UrlLinesOf(lines) ==
    IF Len(lines) = 0 THEN <<>>
    ELSE (IF Len(lines[1]) > 0 /\ lines[1][1] \notin HashTokens THEN <<lines[1]>> ELSE <<>>)
         \o UrlLinesOf(Tail(lines))

\* C7: the URL lines of the full M3U variant are the urls of the records as
\* merge returned them, also after the restricted variant was generated
\* first with catchup injection enabled.
C7_FullVariantNoInjection ==
    mpc \in {"txt", "AttributeError"} =>
        UrlLinesOf(SplitAll(full_m3u, "\n"))
            = [i \in 1..Len(merge_returned) |-> merge_returned[i].url]
\* the fetched sources whose parse does not raise
ParsesWithoutError(d) == ChannelMerger_parse_m3u(d.text, d.url).raised = ""
GoodSources == SelectSeq(sources_data, ParsesWithoutError)

\* C12: a source whose fetch failed or returned nothing is not in the merge
\* input, each source is there at most once, and the catalog merge returns
\* is the catalog of the sources that were fetched and parsed without error:
\* a source whose parse raises neither ends the merge nor takes a record of
\* another source with it.
C12_FailureIsolation ==
    /\ \A k \in 1..Len(sources_data) :
          /\ sources_data[k].text # <<>>
          /\ \E i \in Sources \ pending :
                sources_data[k] = [url |-> SourceUrl(i), text |-> source_text[i]]
          /\ \A m \in 1..Len(sources_data) : sources_data[m].url = sources_data[k].url => m = k
    /\ Merged =>
          merge_returned =
              ChannelMerger_apply_filters(
                  ChannelMerger_dedupe(ChannelMerger_parse_all(GoodSources), <<>>),
                  config.filters)

\* a fetched source raised in its parse, before a good source whose records
\* are in the catalog
C12_Witness ==
    /\ Merged
    /\ Len(sources_data) = 2
    /\ ~ParsesWithoutError(sources_data[1])
    /\ ParsesWithoutError(sources_data[2])
    /\ \E i \in 1..Len(merge_returned) : merge_returned[i].source = sources_data[2].url

(***************************************************************************)
(* Claims about the static catchup injection, checked under SpecInject.    *)
(***************************************************************************)
\* the query fields of a URL, as written
FieldsOf(url) ==
    LET q == urlparse(url).query IN IF q = <<>> THEN <<>> ELSE SplitAll(q, "&")
FieldKey(f) == SplitOnce(f, "=")[1]
IsCatchupField(f) == FieldKey(f) = <<"playseek">>
CatchupCount(url) == Cardinality({i \in 1..Len(FieldsOf(url)) : IsCatchupField(FieldsOf(url)[i])})

\* every field of the URL before, other than the catchup key, is a field of
\* the URL after (percent-encoding aside)
KeepsParams(before, after) ==
    \A i \in 1..Len(FieldsOf(before)) :
        IsCatchupField(FieldsOf(before)[i])
        \/ \E j \in 1..Len(FieldsOf(after)) :
              Unquote(FieldsOf(after)[j]) = Unquote(FieldsOf(before)[i])

InjectionRule(results) ==
    /\ Len(results) >= 1 =>
          /\ KeepsParams(inj_url, results[1])
          /\ CatchupCount(results[1]) = 1
    /\ Len(results) >= 2 => results[2] = results[1]

\* C8: with injection enabled, the injected URL keeps every query parameter
\* it had, carries the catchup parameter exactly once (also when the URL
\* already carried it), and injecting again changes nothing; on both paths,
\* _process_url and _generate_catchup.
C8_StaticInjection ==
    (inj_catchup # <<>> /\ inj_catchup.enable /\ inj_catchup.days > 0) =>
        InjectionRule(via_process_url) /\ InjectionRule(via_generate_catchup)
(***************************************************************************)
(* Claims about process_sources, checked under SpecGen.                    *)
(***************************************************************************)
AllCollected == futures # <<>> /\ \A i \in GenSources : futures[i].state = "collected"

\* the records a fetched delimited-text listing describes: one per line
\* name,#url, with the priority of its source
RECURSIVE DescribedBy(_, _)
DescribedBy(lines, priority) ==
    IF Len(lines) = 0 THEN {}
    ELSE (IF Contains(lines[1], ",#") /\ ~StartsWithHash(lines[1])
          THEN {[name |-> Strip(SplitOnce(lines[1], ",#")[1]),
                 url |-> Strip(SplitOnce(lines[1], ",#")[2]), priority |-> priority]}
          ELSE {}) \cup DescribedBy(Tail(lines), priority)

Described ==
    UNION {DescribedBy(SplitAll(futures[i].fetched, "\n"), gen_config.sources[i].priority) :
              i \in {j \in GenSources : ~MarkerInFirst20(futures[j].fetched)}}

\* C2: once every source is collected, each described record is represented
\* in the table by a record of its fingerprint, and that record is not one
\* of equal priority with a shorter url (on equal priority the longer url
\* is the one kept).
C2_TieBreak ==
    AllCollected =>
        \A r \in Described :
            \E k \in 1..Len(self_channels) :
                /\ self_channels[k].chan.name = r.name
                /\ ~(self_channels[k].chan.priority = r.priority
                     /\ StrLen(self_channels[k].chan.url) < StrLen(r.url))
(***************************************************************************)
(* Claims about the table under the worker pool, checked under SpecGen.    *)
(***************************************************************************)
\* the highest priority among the described records of one name (the
\* records of delimited-text listings share group "Default" and tvg_id "")
MaxPriorityOf(name) ==
    CHOOSE p \in {q.priority : q \in {d \in Described : d.name = name}} :
        \A q \in {d \in Described : d.name = name} : q.priority <= p

IsProbeUrlFor(url, d) ==
    LET before == FieldsOf(stream_url)
        after == FieldsOf(url)
    IN  /\ urlparse(url).base = urlparse(stream_url).base
        /\ \A i \in 1..Len(before) : \E j \in 1..Len(after) : after[j] = before[i]
        /\ Cardinality({j \in 1..Len(after) : FieldKey(after[j]) = <<"catchup">>}) = 1
        /\ \E j \in 1..Len(after) :
              /\ FieldKey(after[j]) = <<"catchup">>
              /\ Unquote(SplitOnce(after[j], "=")[2]) = FormatParam(TplPlayseek, d)

\* C14: every look-back probe goes to the stream URL with its query fields
\* kept and a catchup field added that holds the first template for the
\* window probed; so the probed URL is not the stream URL and the probes of
\* two windows go to two URLs.
C14_ProbeUrlSynthesis ==
    \A k \in 1..Len(requests) :
        requests[k].step = "lookback" =>
            /\ IsProbeUrlFor(requests[k].url, requests[k].arg)
            /\ requests[k].url # stream_url
            /\ \A m \in 1..Len(requests) :
                  (requests[m].step = "lookback" /\ requests[m].arg # requests[k].arg)
                      => requests[m].url # requests[k].url
StepRank(step) ==
    CASE step = "connect" -> 1 [] step = "lookback" -> 2 [] step = "template" -> 3
      [] step = "metadata" -> 4

\* C16: the requests of one detection come in the order connectivity probe,
\* look-back probes, template probes, one streaming GET; a run that passed
\* the gate and reached the GET has probed templates, whether or not a
\* window succeeded; and every template probe goes to the stream URL with
\* the catchup parameter set to its template for the fixed window of 1 day.
C16_StepOrdering ==
    /\ \A k \in 1..Len(requests), m \in 1..Len(requests) :
          k < m => /\ StepRank(requests[k].step) <= StepRank(requests[m].step)
                   /\ requests[k].step # "metadata"
                   /\ requests[m].step # "connect"
    /\ (dpc \in {"metadata", "done"} /\ Len(requests) > 1) =>
          \E k \in 1..Len(requests) : requests[k].step = "template"
    /\ \A k \in 1..Len(requests) :
          requests[k].step = "template" =>
              requests[k].url
                  = WithCatchupParam(stream_url, FormatParam(find_templates[requests[k].arg], 1))
====
